---- MODULE Spec2Model ----
(***************************************************************************)
(* Model of the physics/control core of sim.py: Body, Controller,          *)
(* Simulator.run and net_accel.                                            *)
(*                                                                         *)
(* Numbers.  Python floats are modelled by a binary floating-point format  *)
(* of reduced size: a value is an integer count of quanta of 1/Unit, and   *)
(* it is representable when its magnitude needs at most Prec significant   *)
(* bits (below 2^Prec quanta every count is representable: gradual         *)
(* underflow).  Every arithmetic operation computes the exact result and   *)
(* rounds it once to the nearest representable value, ties to even, as     *)
(* IEEE-754 does.  math.cos and math.sin are rational approximations.      *)
(***************************************************************************)
EXTENDS Integers, Sequences, FiniteSets, TLC

\* ------------------------------------------------------------ numbers

\* One quantum is 1/Unit: 0.01 is 100 quanta, 9.81 is 98100 quanta.
Unit == 10000

\* Significant bits of the format.
Prec == 21

TwoPrec == 2 ^ Prec

Abs(x) == IF x < 0 THEN -x ELSE x

Sgn(x) == IF x < 0 THEN -1 ELSE 1

\* n/d (n >= 0, d > 0) rounded to the nearest integer, ties to even.
RoundEven(n, d) ==
    LET q == n \div d
        r == n % d
    IN  IF 2 * r < d THEN q
        ELSE IF 2 * r > d THEN q + 1
        ELSE IF q % 2 = 0 THEN q ELSE q + 1

\* The spacing of the representable values around magnitude a >= 0.
RECURSIVE UlpFrom(_, _)
UlpFrom(a, p) == IF a < TwoPrec * p THEN p ELSE UlpFrom(a, 2 * p)

Ulp(a) == UlpFrom(a, 1)

\* The exact magnitude i + r/d (i >= 0, 0 <= r < d) rounded to the format.
RoundMag(i, r, d) ==
    LET u == Ulp(i)
        q == i \div u
        num == (i % u) * d + r
        den == u * d
    IN  u * (IF 2 * num < den THEN q
             ELSE IF 2 * num > den THEN q + 1
             ELSE IF q % 2 = 0 THEN q ELSE q + 1)

\* An exact integer count of quanta rounded to the format.
Fl(x) == Sgn(x) * RoundMag(Abs(x), 0, 1)

\* float + float, float - float
FAdd(a, b) == Fl(a + b)

FSub(a, b) == Fl(a - b)

\* float * float: the exact product a*b/Unit, rounded once.
FMul(a, b) ==
    LET x == Abs(a)
        y == Abs(b)
        qa == x \div Unit
        ra == x % Unit
        qb == y \div Unit
        rb == y % Unit
        i == qa * y + ra * qb + ((ra * rb) \div Unit)
        r == (ra * rb) % Unit
    IN  Sgn(a) * Sgn(b) * RoundMag(i, r, Unit)

\* float / float for b # 0: the exact quotient a*Unit/b, rounded once.
FDiv(a, b) ==
    LET x == Abs(a)
        y == Abs(b)
        q == x \div y
        r == x % y
        i == q * Unit + ((r * Unit) \div y)
        f == (r * Unit) % y
    IN  Sgn(a) * Sgn(b) * RoundMag(i, f, y)

\* C fmod(x, m), m > 0: the exact remainder, with the sign of x.
Fmod(x, m) == IF x < 0 THEN -((-x) % m) ELSE x % m

\* Python's float x % m for m > 0 (float_rem): fmod, and when the remainder
\* is negative m is added to it, a float addition, which rounds.
PyMod(x, m) ==
    LET mod == Fmod(x, m)
    IN  IF mod # 0 /\ mod < 0 THEN FAdd(mod, m) ELSE mod

\* sin of a whole number of degrees 0..180, in quanta (Bhaskara's formula
\* 4d(180-d) / (40500 - d(180-d)), within 0.002 of the sine).
SinHalf(d) == RoundEven(4 * d * (180 - d) * Unit, 40500 - d * (180 - d))

SinWhole(d) == IF d <= 180 THEN SinHalf(d) ELSE -SinHalf(d - 180)

\* The heading a (quanta of a degree) as a whole number of degrees in 0..359.
WholeDeg(a) == (Sgn(a) * RoundEven(Abs(a), Unit)) % 360

\* math.sin(angle/convert) and math.cos(angle/convert), convert = 180/pi.
Sin(a) == SinWhole(WholeDeg(a))

Cos(a) == SinWhole((WholeDeg(a) + 90) % 360)

\* The decimal n/d as a float, for the literals of the source.
Dec(n, d) == Sgn(n) * RoundMag((Abs(n) * Unit) \div d, (Abs(n) * Unit) % d, d)

\* ------------------------------------------------------------ state

VARIABLES
    body,          \* the Body object (its fields)
    controller,    \* body.controller (its fields)
    sim,           \* the Simulator object (its fields, the recorded lists)
    integral_x,    \* run's local integral_x
    integral_y,    \* run's local integral_y
    integral_ang,  \* run's local integral_ang
    body_accel,    \* run's local body_accel (the tuple net_accel returned)
    pc,            \* the statement of run about to execute
    args,          \* the caller's construction arguments
    first,         \* what an earlier run from the same arguments left behind
    calls,         \* how many times a client has called Body.step directly
    line           \* the string last printed by run or returned by a report

vars == <<body, controller, sim, integral_x, integral_y, integral_ang,
          body_accel, pc, args, first, calls, line>>

\* ------------------------------------------------------------ Controller

force_lim == Dec(50, 1)

angle_force_lim == Dec(10, 1)

\* Controller.__init__
NewController ==
    [ force_lim       |-> force_lim,
      angle_force_lim |-> angle_force_lim,
      p     |-> Dec(15, 1),
      i     |-> Dec(15, 100),
      d     |-> Dec(5, 1),
      ang_p |-> Dec(2, 1),
      ang_i |-> Dec(1, 1000),
      ang_d |-> Dec(2, 10) ]

\* Limit without its elif branch.
LimitAboveOnly(force, lim) ==
    IF force > lim THEN lim ELSE force

\* The if/elif that limits a force to [-lim, lim].
Limit(force, lim) ==
    IF force > lim THEN lim
    ELSE IF force < -lim THEN -lim
    ELSE force

\* One axis of correct_xy before the limit: three products summed in order.
AxisForce(c, pos_error, velocity, integral) ==
    FAdd(FAdd(FMul(pos_error, -c.p), FMul(velocity, -c.d)),
         FMul(integral, -c.i))

\* correct_xy that limits the position error in place before using it.
correct_xy_limits_error(c, b, ix, iy) ==
    LET err == <<Limit(b.pos_error[1], c.force_lim),
                 Limit(b.pos_error[2], c.force_lim)>>
        force_x == AxisForce(c, err[1], b.velocity[1], ix)
        force_y == AxisForce(c, err[2], b.velocity[2], iy)
    IN  [b EXCEPT !.pos_error = err,
                  !.xy_force = <<Limit(force_x, c.force_lim),
                                 Limit(force_y, c.force_lim)>>]

\* Controller.correct_xy: the body after the call.
correct_xy(c, b, ix, iy) ==
    LET force_x == AxisForce(c, b.pos_error[1], b.velocity[1], ix)
        force_y == AxisForce(c, b.pos_error[2], b.velocity[2], iy)
    IN  [b EXCEPT !.xy_force = <<Limit(force_x, c.force_lim),
                                 Limit(force_y, c.force_lim)>>]

\* Controller.correct_angle: the body after the call.
correct_angle(c, b, iang) ==
    LET ang_force == FAdd(FAdd(FMul(b.ang_error, -c.ang_p),
                               FMul(b.ang_vel_error, -c.ang_d)),
                          FMul(iang, -c.ang_i))
    IN  [b EXCEPT !.angle_force = Limit(ang_force, c.angle_force_lim)]

\* ------------------------------------------------------------ Body

\* Body.__init__: position, velocity and xy_force are copied with list().
NewBody(a) ==
    [ mass             |-> a.mass,
      radius           |-> a.radius,
      drag             |-> a.drag,
      target           |-> a.target,
      target_vel       |-> <<0, 0>>,
      target_angle_vel |-> 0,
      position         |-> a.position,
      velocity         |-> a.velocity,
      angle            |-> a.angle,
      angle_vel        |-> a.angle_vel,
      pos_error        |-> <<0, 0>>,
      vel_error        |-> <<0, 0>>,
      ang_error        |-> 0,
      ang_vel_error    |-> 0,
      xy_force         |-> a.xy_force,
      angle_force      |-> a.angle_force ]

\* The default of step's parameter time_step.
step_default == Dec(1, 100)

Full == Dec(360, 1)

\* self.angle % 360, then the branch for a negative result.
Normalise(angle) ==
    LET m == PyMod(angle, Full)
    IN  IF m < 0 THEN FAdd(m, Full) ELSE m

\* step that moves the body by the velocity it had before the call.
step_old_velocity(b, net_accel, time_step) ==
    LET vel == [k \in 1..3 |->
                  FAdd(b.velocity[k], FMul(net_accel[k], time_step))]
        pos == [k \in 1..3 |->
                  FAdd(b.position[k], FMul(b.velocity[k], time_step))]
        angle_vel == FAdd(b.angle_vel, FMul(net_accel[4], time_step))
        angle == FAdd(b.angle, FMul(b.angle_vel, time_step))
    IN  [b EXCEPT !.velocity = vel,
                  !.position = pos,
                  !.angle_vel = angle_vel,
                  !.angle = Normalise(angle)]

\* Body.step(net_accel, time_step): the body after the call.
step(b, net_accel, time_step) ==
    LET vel == [k \in 1..3 |->
                  FAdd(b.velocity[k], FMul(net_accel[k], time_step))]
        pos == [k \in 1..3 |->
                  FAdd(b.position[k], FMul(vel[k], time_step))]
        angle_vel == FAdd(b.angle_vel, FMul(net_accel[4], time_step))
        angle == FAdd(b.angle, FMul(angle_vel, time_step))
    IN  [b EXCEPT !.velocity = vel,
                  !.position = pos,
                  !.angle_vel = angle_vel,
                  !.angle = Normalise(angle)]

\* update_pos_error with target_vel zipped in place of target.
update_pos_error_target_vel(b) ==
    [b EXCEPT !.pos_error =
        [k \in 1..2 |-> FSub(b.position[k], b.target_vel[k])]]

\* zip() stops at the shorter sequence: two components.
update_pos_error(b) ==
    [b EXCEPT !.pos_error =
        [k \in 1..2 |-> FSub(b.position[k], b.target[k])]]

update_vel_error(b) ==
    [b EXCEPT !.vel_error =
        [k \in 1..2 |-> FSub(b.velocity[k], b.target_vel[k])]]

\* update_angle_error with >= for >.
update_angle_error_from_180(b) ==
    [b EXCEPT !.ang_error =
        IF b.angle >= Dec(180, 1) THEN FSub(b.angle, Full) ELSE b.angle]

update_angle_error(b) ==
    [b EXCEPT !.ang_error =
        IF b.angle > Dec(180, 1) THEN FSub(b.angle, Full) ELSE b.angle]

update_ang_vel_error(b) ==
    [b EXCEPT !.ang_vel_error = FSub(b.angle_vel, b.target_angle_vel)]

\* ------------------------------------------------------------ net_accel

\* gravity with its sign lost.
gravity_up == Dec(981, 100)

gravity == Dec(-981, 100)

\* body_moi = 1/2 * body.mass * (body.radius ** 2)
body_moi(b) == FMul(FMul(Dec(1, 2), b.mass), FMul(b.radius, b.radius))

\* net_accel refusing every non-positive mass and moment of inertia.
net_accel_rejects(b) == b.mass <= 0 \/ body_moi(b) <= 0

\* The divisions of net_accel's return statement raise ZeroDivisionError.
net_accel_raises(b) == b.mass = 0 \/ body_moi(b) = 0

\* One horizontal axis: drag*v**2 + wind + own*cos + other*sin.
HorizAccel(drag, v, wind, own, other, angle) ==
    FAdd(FAdd(FAdd(FMul(drag, FMul(v, v)), wind),
              FMul(own, Cos(angle))),
         FMul(other, Sin(angle)))

\* net_accel(body, sim) when it returns: (x, y, z, angular) accelerations.
net_accel(b, s) ==
    LET x_accel == HorizAccel(b.drag[1], b.velocity[1], s.wind[1],
                              b.xy_force[1], b.xy_force[2], b.angle)
        y_accel == HorizAccel(b.drag[2], b.velocity[2], s.wind[2],
                              b.xy_force[2], b.xy_force[1], b.angle)
        z_accel == FAdd(FMul(gravity, b.mass),
                        FMul(b.drag[3], FMul(b.velocity[3], b.velocity[3])))
        torque == b.angle_force
    IN  << FDiv(x_accel, b.mass), FDiv(y_accel, b.mass),
           FDiv(z_accel, b.mass), FDiv(torque, body_moi(b)) >>

\* ------------------------------------------------------------ reports

\* What a call gives back: a value, or the exception that leaves it.
Returns(v) == [returns |-> v]

Raises(e) == [raises |-> e]

\* The attributes of a Body that hold a list; the others hold a number.
ListAttributes ==
    {"position", "velocity", "drag", "target", "target_vel", "pos_error",
     "vel_error", "xy_force"}

\* n written with at least w digits.
Digits(n, w) ==
    IF w = 3 /\ n < 10 THEN "00" \o ToString(n)
    ELSE IF (w = 3 /\ n < 100) \/ (w = 2 /\ n < 10) THEN "0" \o ToString(n)
    ELSE ToString(n)

\* format(v, "0.<d>f") of a float v: the sign, the whole part and d decimals
\* of the magnitude rounded half to even.
FormatFixed(v, d) ==
    LET scale == 10 ^ d
        n == RoundEven(Abs(v), Unit \div scale)
    IN  (IF v < 0 THEN "-" ELSE "") \o ToString(n \div scale) \o "."
            \o Digits(n % scale, d)

\* The replacement field {self.<attr>:0.2f} of an f-string: the attribute is
\* looked up, then formatted; a list takes no format specification.
Field(b, attr) ==
    IF attr \notin DOMAIN b THEN Raises("AttributeError")
    ELSE IF attr \in ListAttributes THEN Raises("TypeError")
    ELSE Returns(FormatFixed(b[attr], 2))

\* The replacement field {self.<attr>[k]:0.2f}.
Item(b, attr, k) ==
    IF attr \notin DOMAIN b THEN Raises("AttributeError")
    ELSE IF attr \notin ListAttributes THEN Raises("TypeError")
    ELSE IF k \notin DOMAIN b[attr] THEN Raises("IndexError")
    ELSE Returns(FormatFixed(b[attr][k], 2))

RECURSIVE JoinedFrom(_, _)
\* fields[k], fields[k + 1], ... separated by ", "
JoinedFrom(fields, k) ==
    IF k = Len(fields) THEN fields[k].returns
    ELSE fields[k].returns \o ", " \o JoinedFrom(fields, k + 1)

\* The fields joined with ", ", or the exception of the first that raises.
Joined(fields) ==
    IF \E k \in DOMAIN fields : "raises" \in DOMAIN fields[k]
    THEN fields[CHOOSE k \in DOMAIN fields :
                    /\ "raises" \in DOMAIN fields[k]
                    /\ \A j \in 1..(k - 1) : "returns" \in DOMAIN fields[j]]
    ELSE Returns(JoinedFrom(fields, 1))

\* f"<name>(<field>, <field>, ...)"
Report(name, fields) ==
    LET inner == Joined(fields)
    IN  IF "raises" \in DOMAIN inner THEN inner
        ELSE Returns(name \o "(" \o inner.returns \o ")")

pos_report(b) ==
    Report("pos", <<Item(b, "position", 1), Item(b, "position", 2),
                    Item(b, "position", 3)>>)

vel_report(b) ==
    Report("vel", <<Item(b, "velocity", 1), Item(b, "velocity", 2),
                    Item(b, "velocity", 3)>>)

ang_report(b) == Report("angle", <<Field(b, "angle")>>)

\* reads self.ang_vel
ang_vel_report(b) == Report("ang_vel", <<Field(b, "ang_vel")>>)

pos_error_report(b) ==
    Report("pos_error", <<Item(b, "pos_error", 1), Item(b, "pos_error", 2)>>)

\* formats self.vel_error itself
vel_error_report(b) == Report("vel_error", <<Field(b, "vel_error")>>)

ang_error_report(b) == Report("ang_error", <<Field(b, "ang_error")>>)

ReportNames ==
    {"pos_report", "vel_report", "ang_report", "ang_vel_report",
     "pos_error_report", "vel_error_report", "ang_error_report"}

\* body.<name>()
CallOf(name, b) ==
    CASE name = "pos_report" -> pos_report(b)
      [] name = "vel_report" -> vel_report(b)
      [] name = "ang_report" -> ang_report(b)
      [] name = "ang_vel_report" -> ang_vel_report(b)
      [] name = "pos_error_report" -> pos_error_report(b)
      [] name = "vel_error_report" -> vel_error_report(b)
      [] name = "ang_error_report" -> ang_error_report(b)

\* ------------------------------------------------------------ Simulator

\* The thirteen lists of the Simulator, in the order run appends to them.
Series == << "time", "x_pos", "y_pos", "z_pos", "x_vel", "y_vel", "z_vel",
             "x_accel", "y_accel", "z_accel", "angle", "angle_vel",
             "angle_accel" >>

SeriesNames == { Series[k] : k \in 1..Len(Series) }

\* Simulator.__init__
NewSimulator(a) ==
    [ time_step  |-> a.time_step,
      step_count |-> 0,
      wind       |-> a.wind,
      debug      |-> a.debug,
      data       |-> [n \in SeriesNames |-> << >>] ]

\* The values run appends, one per list.
Sample(s, b, accel) ==
    [ time        |-> FMul(s.time_step, Fl(s.step_count * Unit)),
      x_pos       |-> b.position[1],
      y_pos       |-> b.position[2],
      z_pos       |-> b.position[3],
      x_vel       |-> b.velocity[1],
      y_vel       |-> b.velocity[2],
      z_vel       |-> b.velocity[3],
      x_accel     |-> accel[1],
      y_accel     |-> accel[2],
      z_accel     |-> accel[3],
      angle       |-> b.angle,
      angle_vel   |-> b.angle_vel,
      angle_accel |-> accel[4] ]

\* Accumulate with a deadband on the magnitude of the error.
AccumulateDeadband(integral, error) ==
    IF Abs(error) < Dec(1, 1) THEN FAdd(integral, error) ELSE 0

\* The accumulator after one tick's update: added to while the signed error
\* is below 1, reset otherwise.
Accumulate(integral, error) ==
    IF error < Dec(1, 1) THEN FAdd(integral, error) ELSE 0

\* The accumulators left as the previous run set them.
integral_left == <<integral_x, integral_y, integral_ang>>

\* The three accumulators as run initialises them.
integral_init == <<0, 0, 0>>

\* ------------------------------------------------------------ bounds

\* run's loop has no bound of its own; the model stops entering it here.
MaxTicks == 520

\* How many times a client calls Body.step on one body.
MaxCalls == 2

\* ------------------------------------------------------------ scenarios

\* Body()'s and Simulator()'s defaults, at altitude z.
Defaults(z) ==
    [ mass |-> Dec(1, 1), radius |-> Dec(5, 100),
      position |-> <<0, 0, z>>, velocity |-> <<0, 0, 0>>,
      angle |-> 0, angle_vel |-> 0, drag |-> <<0, 0, 0>>,
      target |-> <<0, 0>>, xy_force |-> <<0, 0>>, angle_force |-> 0,
      wind |-> <<0, 0>>, time_step |-> Dec(1, 100), debug |-> FALSE ]

Low == Dec(2, 100)

Targets == { <<0, 0>>, <<Dec(-7, 1), Dec(-15, 1)>>,
             <<Dec(3, 1), Dec(5, 10)>>, <<Dec(-9, 10), Dec(4, 10)>> }

\* Headings outside [0, 360) and negative ones included.
Headings == { 0, Dec(5, 10), Dec(180, 1), Dec(181, 1), Dec(-30, 1),
              Dec(725, 1) }

AngleVels == { 0, Dec(-1, 100), Dec(150, 1) }

TimeSteps == { Dec(1, 100), Dec(1, 10) }

\* Short flights over targets, headings, angular velocities and time steps.
Flights ==
    { [Defaults(Low) EXCEPT !.target = t, !.angle = h, !.angle_vel = w,
                            !.time_step = ts] :
        t \in Targets, h \in Headings, w \in AngleVels, ts \in TimeSteps }

\* Masses and radii of every sign, on, above and below the ground.
Degenerate ==
    { [Defaults(z) EXCEPT !.mass = m, !.radius = r,
                          !.target = <<Dec(-7, 1), Dec(-15, 1)>>] :
        m \in { 0, Dec(-1, 1), Dec(2, 1) },
        r \in { 0, Dec(-5, 100), Dec(1, 10) },
        z \in { Low, 0, Dec(-1, 1) } }

\* Moving bodies in wind and drag, with forces preset at construction.
Moving ==
    { [Defaults(Low) EXCEPT !.velocity = v, !.wind = w, !.drag = dr,
                            !.xy_force = f, !.angle_force = af,
                            !.target = <<Dec(-9, 10), Dec(4, 10)>>] :
        v \in { <<Dec(20, 1), Dec(-3, 1), 0>>, <<0, 0, Dec(-2, 1)>>,
                <<Dec(-20, 1), Dec(2, 1), Dec(5, 10)>> },
        w \in { <<0, 0>>, <<Dec(1, 1), Dec(-2, 1)>> },
        dr \in { <<0, 0, 0>>, <<Dec(1, 10), Dec(1, 10), Dec(1, 10)>> },
        f \in { <<0, 0>>, <<Dec(80, 1), Dec(-80, 1)>> },
        af \in { 0, Dec(30, 1) } }

High == Dec(122, 1)

\* The drop from 122 m under gravity only, and run_skydiver_simulation's body.
Drops ==
    { [Defaults(High) EXCEPT !.time_step = ts] : ts \in TimeSteps }
    \cup { [Defaults(High) EXCEPT !.target = <<Dec(-7, 1), Dec(-15, 1)>>,
                                  !.angle = Dec(181, 1), !.debug = TRUE] }

\* Bodies constructed exactly on their target, upright and at rest.
OnTarget ==
    { [Defaults(Low) EXCEPT !.position = <<t[1], t[2], Low>>, !.target = t,
                            !.wind = w] :
        t \in Targets, w \in { <<0, 0>>, <<Dec(1, 1), Dec(-2, 1)>> } }

Scenarios == Flights \cup Degenerate \cup Moving \cup Drops \cup OnTarget

\* Bodies a client constructs to call Body's and Controller's methods on.
ClientBodies ==
    { [Defaults(Low) EXCEPT !.position = <<xy[1], xy[2], Low>>,
                            !.velocity = v, !.angle = h, !.angle_vel = w,
                            !.target = <<Dec(-7, 1), Dec(-15, 1)>>] :
        xy \in { <<Dec(-7, 1), Dec(-15, 1)>>, <<Dec(1000, 1), Dec(-1000, 1)>> },
        v \in { <<0, 0, 0>>, <<Dec(100, 1), Dec(-100, 1), Dec(-5, 1)>> },
        h \in Headings, w \in AngleVels }
    \cup { [Defaults(Low) EXCEPT !.position = <<Dec(-7, 1), Dec(-15, 1), Low>>,
                                  !.target = <<Dec(-7, 1), Dec(-15, 1)>>,
                                  !.xy_force = <<Dec(80, 1), Dec(-80, 1)>>,
                                  !.angle_force = Dec(30, 1)] }

\* The accelerations a client passes to Body.step.
Accels == { <<0, 0, Dec(-981, 100), 0>>,
            <<Dec(100, 1), Dec(-100, 1), Dec(5, 1), Dec(-8000, 1)>> }

\* The integral arguments a client passes to the Controller.
IntegralArgs == { 0, Dec(1000, 1), Dec(-1000, 1) }

\* ------------------------------------------------------------ run

\* What a finished run leaves for its readers.
Outcome(ran, at, s, b) == [ran |-> ran, pc |-> at, sim |-> s, body |-> b]

Init ==
    /\ args \in Scenarios \cup ClientBodies
    /\ body = NewBody(args)
    /\ controller = NewController
    /\ sim = NewSimulator(args)
    /\ integral_x = 0
    /\ integral_y = 0
    /\ integral_ang = 0
    /\ body_accel = <<0, 0, 0, 0>>
    /\ \/ pc = "run" /\ args \in Scenarios
       \/ pc = "client" /\ args \in ClientBodies
    /\ first = Outcome(FALSE, pc, NewSimulator(args), NewBody(args))
    /\ calls = 0
    /\ line = ""

\* The loop test with >= for >.
AirborneOrTouching(b) == b.position[3] >= 0

\* The loop test of run: self.body.position[2] > 0
Airborne(b) == b.position[3] > 0

\* integral_x = 0; integral_y = 0; integral_ang = 0
RunEntry ==
    /\ pc = "run"
    /\ integral_x' = integral_init[1]
    /\ integral_y' = integral_init[2]
    /\ integral_ang' = integral_init[3]
    /\ pc' = "while"
    /\ UNCHANGED <<line, body, controller, sim, body_accel, args, first, calls>>

\* while self.body.position[2] > 0: the test holds
LoopEnter ==
    /\ pc = "while"
    /\ Airborne(body)
    /\ sim.step_count < MaxTicks
    /\ pc' = "net_accel"
    /\ UNCHANGED <<line, body, controller, sim, integral_x, integral_y,
                   integral_ang, body_accel, args, first, calls>>

\* while self.body.position[2] > 0: the test fails and run returns
LoopExit ==
    /\ pc = "while"
    /\ ~Airborne(body)
    /\ pc' = "returned"
    /\ UNCHANGED <<line, body, controller, sim, integral_x, integral_y,
                   integral_ang, body_accel, args, first, calls>>

\* body_accel = net_accel(self.body, self)
NetAccel ==
    /\ pc = "net_accel"
    /\ ~net_accel_raises(body)
    /\ body_accel' = net_accel(body, sim)
    /\ pc' = "step"
    /\ UNCHANGED <<line, body, controller, sim, integral_x, integral_y,
                   integral_ang, args, first, calls>>

\* net_accel divides by zero: the exception leaves run
NetAccelRaises ==
    /\ pc = "net_accel"
    /\ net_accel_raises(body)
    /\ pc' = "ZeroDivisionError"
    /\ UNCHANGED <<line, body, controller, sim, integral_x, integral_y,
                   integral_ang, body_accel, args, first, calls>>

\* The time step run's call self.body.step(body_accel) integrates over.
run_dt(s) == step_default

\* self.body.step(body_accel); self.step_count += 1
Step ==
    /\ pc = "step"
    /\ body' = step(body, body_accel, run_dt(sim))
    /\ sim' = [sim EXCEPT !.step_count = @ + 1]
    /\ pc' = "update_pos_error"
    /\ UNCHANGED <<line, controller, integral_x, integral_y, integral_ang,
                   body_accel, args, first, calls>>

UpdatePosError ==
    /\ pc = "update_pos_error"
    /\ body' = update_pos_error(body)
    /\ pc' = "update_vel_error"
    /\ UNCHANGED <<line, controller, sim, integral_x, integral_y, integral_ang,
                   body_accel, args, first, calls>>

UpdateVelError ==
    /\ pc = "update_vel_error"
    /\ body' = update_vel_error(body)
    /\ pc' = "update_angle_error"
    /\ UNCHANGED <<line, controller, sim, integral_x, integral_y, integral_ang,
                   body_accel, args, first, calls>>

UpdateAngleError ==
    /\ pc = "update_angle_error"
    /\ body' = update_angle_error(body)
    /\ pc' = "update_ang_vel_error"
    /\ UNCHANGED <<line, controller, sim, integral_x, integral_y, integral_ang,
                   body_accel, args, first, calls>>

UpdateAngVelError ==
    /\ pc = "update_ang_vel_error"
    /\ body' = update_ang_vel_error(body)
    /\ pc' = "correct_angle"
    /\ UNCHANGED <<line, controller, sim, integral_x, integral_y, integral_ang,
                   body_accel, args, first, calls>>

\* The condition of the comment "update controller every 5 steps".
ControlEveryFifth(s) == s.step_count % 5 = 0

\* if self.step_count % 1 == 0
ControlDue(s) == s.step_count % 1 = 0

\* self.body.controller.correct_angle(integral_ang)
CorrectAngle ==
    /\ pc = "correct_angle"
    /\ body' = IF ControlDue(sim)
               THEN correct_angle(controller, body, integral_ang)
               ELSE body
    /\ pc' = "correct_xy"
    /\ UNCHANGED <<line, controller, sim, integral_x, integral_y, integral_ang,
                   body_accel, args, first, calls>>

\* self.body.controller.correct_xy(integral_x, integral_y)
CorrectXY ==
    /\ pc = "correct_xy"
    /\ body' = IF ControlDue(sim)
               THEN correct_xy(controller, body, integral_x, integral_y)
               ELSE body
    /\ pc' = "integrals"
    /\ UNCHANGED <<line, controller, sim, integral_x, integral_y, integral_ang,
                   body_accel, args, first, calls>>

\* The three if/else statements that set the integrals.
Integrals ==
    /\ pc = "integrals"
    /\ integral_x' = Accumulate(integral_x, body.pos_error[1])
    /\ integral_y' = Accumulate(integral_y, body.pos_error[2])
    /\ integral_ang' = Accumulate(integral_ang, body.ang_error)
    /\ pc' = "append"
    /\ UNCHANGED <<line, body, controller, sim, body_accel, args, first, calls>>

\* Appended with the append to angle_accel left out.
AppendedButLast(s, b, accel) ==
    [n \in SeriesNames |->
        IF n = "angle_accel" THEN s.data[n]
        ELSE Append(s.data[n], Sample(s, b, accel)[n])]

\* The lists after run's thirteen append calls.
Appended(s, b, accel) ==
    [n \in SeriesNames |-> Append(s.data[n], Sample(s, b, accel)[n])]

\* The line run prints when self.debug is set: the time with three decimals
\* and five reports of the body.
DebugLine(s, b) ==
    Joined(<<Returns("time: " \o
                     FormatFixed(FMul(Fl(s.step_count * Unit), s.time_step),
                                 3)),
             pos_report(b), vel_report(b), ang_report(b),
             pos_error_report(b), ang_error_report(b)>>)

\* The thirteen appends and, if self.debug, the print that ends the loop body.
AppendSample ==
    /\ pc = "append"
    /\ sim' = [sim EXCEPT !.data = Appended(sim, body, body_accel)]
    /\ IF sim.debug /\ "raises" \in DOMAIN DebugLine(sim, body)
       THEN pc' = DebugLine(sim, body).raises /\ line' = line
       ELSE /\ pc' = "while"
            /\ line' = IF sim.debug THEN DebugLine(sim, body).returns ELSE line
    /\ UNCHANGED <<body, controller, integral_x, integral_y, integral_ang,
                   body_accel, args, first, calls>>

\* A second Body and Simulator are constructed from the same arguments once
\* the first run is over, and run again.
Rerun ==
    /\ pc \in {"returned", "ZeroDivisionError"}
    /\ ~first.ran
    /\ first' = Outcome(TRUE, pc, sim, body)
    /\ body' = NewBody(args)
    /\ controller' = NewController
    /\ sim' = NewSimulator(args)
    /\ pc' = "run"
    /\ UNCHANGED <<line, integral_x, integral_y, integral_ang, body_accel, args,
                   calls>>

\* ------------------------------------------------------------ client calls

\* A client that holds a constructed body calls its methods itself, in the
\* order run calls them, with accelerations, time steps and integrals of its
\* own choosing.

\* body.step(accel, dt)
CallStep ==
    /\ pc = "client"
    /\ calls < MaxCalls
    /\ \E accel \in Accels, dt \in TimeSteps :
          body' = step(body, accel, dt)
    /\ calls' = calls + 1
    /\ UNCHANGED <<line, controller, sim, integral_x, integral_y, integral_ang,
                   body_accel, pc, args, first>>

CallUpdatePosError ==
    /\ pc = "client"
    /\ body' = update_pos_error(body)
    /\ pc' = "client update_vel_error"
    /\ UNCHANGED <<line, controller, sim, integral_x, integral_y, integral_ang,
                   body_accel, args, first, calls>>

CallUpdateVelError ==
    /\ pc = "client update_vel_error"
    /\ body' = update_vel_error(body)
    /\ pc' = "client update_angle_error"
    /\ UNCHANGED <<line, controller, sim, integral_x, integral_y, integral_ang,
                   body_accel, args, first, calls>>

CallUpdateAngleError ==
    /\ pc = "client update_angle_error"
    /\ body' = update_angle_error(body)
    /\ pc' = "client update_ang_vel_error"
    /\ UNCHANGED <<line, controller, sim, integral_x, integral_y, integral_ang,
                   body_accel, args, first, calls>>

CallUpdateAngVelError ==
    /\ pc = "client update_ang_vel_error"
    /\ body' = update_ang_vel_error(body)
    /\ pc' = "client correct_angle"
    /\ UNCHANGED <<line, controller, sim, integral_x, integral_y, integral_ang,
                   body_accel, args, first, calls>>

\* body.controller.correct_angle(integral_ang)
CallCorrectAngle ==
    /\ pc = "client correct_angle"
    /\ \E ia \in IntegralArgs :
          /\ integral_ang' = ia
          /\ body' = correct_angle(controller, body, ia)
    /\ pc' = "client correct_xy"
    /\ UNCHANGED <<line, controller, sim, integral_x, integral_y, body_accel,
                   args, first, calls>>

\* body.controller.correct_xy(integral_x, integral_y)
CallCorrectXY ==
    /\ pc = "client correct_xy"
    /\ \E ix \in IntegralArgs, iy \in IntegralArgs :
          /\ integral_x' = ix
          /\ integral_y' = iy
          /\ body' = correct_xy(controller, body, ix, iy)
    /\ pc' = "client done"
    /\ UNCHANGED <<line, controller, sim, integral_ang, body_accel, args, first,
                   calls>>

\* body.<name>() for one of the seven reports, which returns its string
CallReport ==
    /\ pc = "client correct_angle"
    /\ \E name \in ReportNames :
          /\ "returns" \in DOMAIN CallOf(name, body)
          /\ line' = CallOf(name, body).returns
    /\ pc' = "client reported"
    /\ UNCHANGED <<body, controller, sim, integral_x, integral_y,
                   integral_ang, body_accel, args, first, calls>>

\* body.<name>() for one of the seven reports, which raises
CallReportRaises ==
    /\ pc = "client correct_angle"
    /\ \E name \in ReportNames :
          /\ "raises" \in DOMAIN CallOf(name, body)
          /\ pc' = CallOf(name, body).raises
    /\ UNCHANGED <<body, controller, sim, integral_x, integral_y,
                   integral_ang, body_accel, args, first, calls, line>>

Next ==
    \/ RunEntry
    \/ LoopEnter
    \/ LoopExit
    \/ NetAccel
    \/ NetAccelRaises
    \/ Step
    \/ UpdatePosError
    \/ UpdateVelError
    \/ UpdateAngleError
    \/ UpdateAngVelError
    \/ CorrectAngle
    \/ CorrectXY
    \/ Integrals
    \/ AppendSample
    \/ Rerun
    \/ CallStep
    \/ CallUpdatePosError
    \/ CallUpdateVelError
    \/ CallUpdateAngleError
    \/ CallUpdateAngVelError
    \/ CallCorrectAngle
    \/ CallCorrectXY
    \/ CallReport
    \/ CallReportRaises

Spec == Init /\ [][Next]_vars

\* ------------------------------------------------------------ properties

\* Has Body.step been called on the body (by run, or by the client)?
Stepped == sim.step_count >= 1 \/ calls >= 1

\* C1: after every call of Body.step the heading satisfies
\* 0 <= heading < 360, whatever the initial heading and angular velocity.
C1_HeadingInRange ==
    Stepped => (0 <= body.angle /\ body.angle < Full)

XYWithin(b, c) ==
    \A k \in 1..2 : -c.force_lim <= b.xy_force[k] /\ b.xy_force[k] <= c.force_lim

AngleWithin(b, c) ==
    -c.angle_force_lim <= b.angle_force /\ b.angle_force <= c.angle_force_lim

\* C2: after every call of correct_xy both components of xy_force are within
\* [-force_limit, force_limit], after every call of correct_angle angle_force
\* is within [-angular_force_limit, angular_force_limit], and from the second
\* tick on the forces net_accel reads are within the limits.
C2_ForcesSaturate ==
    /\ [][(CorrectXY \/ CallCorrectXY) => XYWithin(body', controller')]_vars
    /\ [][(CorrectAngle \/ CallCorrectAngle)
             => AngleWithin(body', controller')]_vars
    /\ [](pc = "net_accel" /\ sim.step_count >= 1
             => XYWithin(body, controller) /\ AngleWithin(body, controller))

\* C2's case: a force preset beyond the limit has been replaced by a
\* computed one that the limit cut down to -force_lim.
C2_Witness ==
    /\ pc = "integrals"
    /\ args.xy_force[1] > controller.force_lim
    /\ AxisForce(controller, body.pos_error[1], body.velocity[1], integral_x)
          < -controller.force_lim
    /\ body.xy_force[1] = -controller.force_lim

One == Dec(1, 1)

IntegralAfter(integral, error) ==
    IF error < One THEN Fl(integral + error) ELSE 0

\* C3: each accumulator is 0 when the first tick begins, and every tick sets
\* it to accumulator + error when the signed error is < 1 and to 0 when the
\* error is >= 1: the errors 0.5, 2.0, 0.3 give 0.5, 0, 0.3.
C3_IntegralPolicy ==
    /\ [](pc = "while" /\ sim.step_count = 0
             => integral_x = 0 /\ integral_y = 0 /\ integral_ang = 0)
    /\ [][pc = "integrals" =>
            /\ integral_x' = IntegralAfter(integral_x, body.pos_error[1])
            /\ integral_y' = IntegralAfter(integral_y, body.pos_error[2])
            /\ integral_ang' = IntegralAfter(integral_ang, body.ang_error)]_vars
    /\ [](/\ Accumulate(0, Dec(5, 10)) = Dec(5, 10)
          /\ Accumulate(Dec(5, 10), Dec(2, 1)) = 0
          /\ Accumulate(0, Dec(3, 10)) = Dec(3, 10))

\* C3's case: a negative error beyond -1 has been added to one accumulator
\* for several ticks while an error of at least 1 has reset another.
C3_Witness ==
    /\ pc = "append"
    /\ sim.step_count >= 3
    /\ body.pos_error[1] <= -One
    /\ integral_x <= 3 * body.pos_error[1] + One
    /\ body.ang_error >= One
    /\ integral_ang = 0

Recorded(n) == sim.data[n]

\* Any statement of run.
RunStatement ==
    \/ RunEntry \/ LoopEnter \/ LoopExit \/ NetAccel \/ NetAccelRaises \/ Step
    \/ UpdatePosError \/ UpdateVelError \/ UpdateAngleError
    \/ UpdateAngVelError \/ CorrectAngle \/ CorrectXY \/ Integrals
    \/ AppendSample

\* C4: a tick runs only from a top of the loop with z > 0; run returns at the
\* first top with z <= 0; if z starts <= 0 nothing is recorded, otherwise all
\* recorded z but the last are > 0 and the last is <= 0; nothing follows.
C4_LandedIsTerminal ==
    /\ pc = "net_accel" => body.position[3] > 0
    /\ \A k \in 1..(Len(Recorded("z_pos")) - 1) : Recorded("z_pos")[k] > 0
    /\ pc = "returned" =>
          IF args.position[3] <= 0
          THEN sim.step_count = 0 /\ \A n \in SeriesNames : Recorded(n) = << >>
          ELSE /\ Len(Recorded("z_pos")) >= 1
               /\ Recorded("z_pos")[Len(Recorded("z_pos"))] <= 0
    /\ pc = "returned" => ~ENABLED RunStatement

\* C4's case: a run of several ticks has returned.
C4_Witness ==
    /\ pc = "returned"
    /\ sim.step_count >= 3
    /\ Recorded("z_pos")[sim.step_count] <= 0
    /\ Recorded("z_pos")[sim.step_count - 1] > 0

\* C5: at the end of every tick and when run is over the thirteen lists all
\* have length step_count; step_count grows by exactly 1 in each tick and
\* never decreases within a run.
C5_SeriesAligned ==
    /\ [](pc \in {"while", "returned", "ZeroDivisionError"}
             => \A n \in SeriesNames : Len(Recorded(n)) = sim.step_count)
    /\ [][pc # "returned" /\ pc # "ZeroDivisionError" =>
            sim'.step_count = sim.step_count + (IF pc = "step" THEN 1 ELSE 0)]_vars

\* C5's case: a run of several ticks is over with thirteen lists of that length.
C5_Witness ==
    /\ pc = "returned"
    /\ sim.step_count >= 3
    /\ \A n \in SeriesNames : Len(Recorded(n)) = sim.step_count

\* Whole hundredths of a second in sqrt(2*122/9.81) s, rounded up.
FallCs == CHOOSE q \in 1..1000 :
              /\ 981 * q * q >= 2 * 122 * 1000000
              /\ 981 * (q - 1) * (q - 1) < 2 * 122 * 1000000

\* ceil(sqrt(2*122/9.81) / time_step), time_step a multiple of 0.01.
ExpectedTicks(time_step) ==
    LET k == time_step \div Dec(1, 100)
    IN  (FallCs + k - 1) \div k

\* The arguments of the drop under gravity only.
GravityOnly(a) ==
    \E ts \in TimeSteps : a = [Defaults(High) EXCEPT !.time_step = ts]

\* C6: the body dropped from z = 122 at rest, with no forces, drag or wind,
\* lands (z <= 0) after a number of ticks within 1 of
\* ceil(sqrt(2*122/9.81)/time_step), for every time_step.
C6_DropTicks ==
    pc = "returned" /\ GravityOnly(args) =>
        /\ body.position[3] <= 0
        /\ Abs(sim.step_count - ExpectedTicks(sim.time_step)) <= 1

\* C7: every tick integrates the body over the Simulator's time_step, the
\* step behind the time recorded for the sample.
C7_StepOverTimeStep ==
    [][pc = "step" => body' = step(body, body_accel, sim.time_step)]_vars

\* The body is on its target, upright, not moving over the ground and not
\* turning.
OnTargetAtRest(b) ==
    /\ b.position[1] = b.target[1] /\ b.position[2] = b.target[2]
    /\ b.velocity[1] = 0 /\ b.velocity[2] = 0
    /\ b.angle = 0 /\ b.angle_vel = 0

\* C8: for a body on its target, at rest, upright and not turning, whose
\* error fields have been updated, correct_xy called with zero integrals sets
\* xy_force to (0, 0) and correct_angle called with a zero integral sets
\* angle_force to 0.
C8_ZeroErrorZeroForce ==
    /\ [][(CorrectXY /\ integral_x = 0 /\ integral_y = 0
             /\ OnTargetAtRest(body)) => body'.xy_force = <<0, 0>>]_vars
    /\ [][(CallCorrectXY /\ integral_x' = 0 /\ integral_y' = 0
             /\ OnTargetAtRest(body)) => body'.xy_force = <<0, 0>>]_vars
    /\ [][(CorrectAngle /\ integral_ang = 0 /\ OnTargetAtRest(body))
             => body'.angle_force = 0]_vars
    /\ [][(CallCorrectAngle /\ integral_ang' = 0 /\ OnTargetAtRest(body))
             => body'.angle_force = 0]_vars

\* C8's case: a body constructed on a target away from the origin, with
\* forces preset, has had both corrections called with zero integrals.
C8_Witness ==
    /\ pc = "client done"
    /\ OnTargetAtRest(body)
    /\ body.target # <<0, 0>>
    /\ args.xy_force # <<0, 0>> /\ args.angle_force # 0
    /\ integral_x = 0 /\ integral_y = 0 /\ integral_ang = 0
    /\ body.xy_force = <<0, 0>> /\ body.angle_force = 0

\* C9 as stated: no mass <= 0 and no radius <= 0 makes the force model or run
\* fail with an error.
C9_NoErrorRaised ==
    (args.mass <= 0 \/ args.radius <= 0) => pc # "ZeroDivisionError"

\* C9, amended: run fails with ZeroDivisionError only for a mass or radius
\* of 0, and then in the first tick, with nothing recorded; with a mass or
\* radius of 0 a run returns only when it starts at z <= 0; a negative mass
\* or radius raises no error.
C9_ZeroDivisionOnly ==
    /\ pc = "ZeroDivisionError" =>
          /\ args.mass = 0 \/ args.radius = 0
          /\ args.position[3] > 0
          /\ sim.step_count = 0
          /\ \A n \in SeriesNames : Recorded(n) = << >>
    /\ (args.mass = 0 \/ args.radius = 0) =>
          /\ pc \in {"run", "while", "net_accel", "returned",
                     "ZeroDivisionError"}
          /\ pc = "returned" => args.position[3] <= 0

\* C9's case: a run with a negative mass and a negative radius has returned
\* with samples recorded.
C9_Witness ==
    /\ pc = "returned"
    /\ args.mass < 0 /\ args.radius < 0
    /\ sim.step_count >= 3
    /\ Len(Recorded("x_pos")) = sim.step_count

\* C10: a second run from equal construction arguments, on a fresh Body and
\* Simulator, ends as the first did: the same lists sample for sample, the
\* same step_count, the same body with the same error fields.
C10_RunsAgree ==
    (pc \in {"returned", "ZeroDivisionError"} /\ first.ran) =>
        /\ pc = first.pc
        /\ sim = first.sim
        /\ body = first.body

\* C10's case: the second of two runs of several ticks, with integrals
\* accumulated and errors left, has returned.
C10_Witness ==
    /\ pc = "returned"
    /\ first.ran
    /\ sim.step_count >= 3
    /\ integral_x # 0 /\ integral_ang # 0
    /\ body.pos_error # <<0, 0>>

Half == Dec(180, 1)

\* The heading error that belongs to heading h.
WrappedHeading(h) == IF h <= Half THEN h ELSE h - Full

\* C11: once step has been called, update_angle_error leaves a heading error
\* with -180 < heading_error <= 180 that equals the heading when the heading
\* is <= 180 and the heading - 360 when it is > 180.
C11_HeadingErrorWrapped ==
    /\ [][(UpdateAngleError \/ (CallUpdateAngleError /\ calls >= 1)) =>
            /\ -Half < body'.ang_error /\ body'.ang_error <= Half
            /\ body'.ang_error = WrappedHeading(body'.angle)]_vars
    /\ [](pc \in {"update_ang_vel_error", "correct_angle", "correct_xy",
                  "integrals", "append"}
             => /\ -Half < body.ang_error /\ body.ang_error <= Half
                /\ body.ang_error = WrappedHeading(body.angle))

\* C11's case: in a tick of run the heading was above 180 and the error is
\* the heading less 360.
C11_Witness ==
    /\ pc = "update_ang_vel_error"
    /\ body.angle > Half
    /\ body.ang_error = body.angle - Full
    /\ body.ang_error < 0

\* The fields of the body other than the given one are as before the step.
OnlyFieldChanges(f) ==
    /\ \A g \in (DOMAIN body) \ {f} : body'[g] = body[g]
    /\ DOMAIN body' = DOMAIN body

\* Both orders of the two controller calls on body b.
AngleThenXY(b, ia, ix, iy) ==
    correct_xy(controller, correct_angle(controller, b, ia), ix, iy)

XYThenAngle(b, ia, ix, iy) ==
    correct_angle(controller, correct_xy(controller, b, ix, iy), ia)

\* C12: correct_xy changes nothing but body.xy_force and correct_angle
\* nothing but body.angle_force: the controller, the body's other fields and
\* run's integral values stay as they were, and the two calls give the same
\* body in either order.
C12_ControllerFrame ==
    /\ [][(CorrectXY \/ CallCorrectXY) =>
            OnlyFieldChanges("xy_force") /\ controller' = controller]_vars
    /\ [][(CorrectAngle \/ CallCorrectAngle) =>
            OnlyFieldChanges("angle_force") /\ controller' = controller]_vars
    /\ [][(CorrectXY \/ CorrectAngle) =>
            UNCHANGED <<integral_x, integral_y, integral_ang, sim>>]_vars
    /\ [](pc = "correct_angle" =>
            AngleThenXY(body, integral_ang, integral_x, integral_y)
                = XYThenAngle(body, integral_ang, integral_x, integral_y))
    /\ [](pc = "client correct_angle" =>
            \A ia \in IntegralArgs, ix \in IntegralArgs, iy \in IntegralArgs :
                AngleThenXY(body, ia, ix, iy) = XYThenAngle(body, ia, ix, iy))

\* C12's case: both calls of a tick have been made, each wrote a new force,
\* and the errors they read are not zero.
C12_Witness ==
    /\ pc = "integrals"
    /\ body.xy_force # args.xy_force
    /\ body.angle_force # args.angle_force
    /\ body.pos_error # <<0, 0>>
    /\ body.ang_error # 0

\* The body with its four error fields computed anew from its present state.
ErrorsUpdated(b) ==
    update_ang_vel_error(update_angle_error(update_vel_error(
        update_pos_error(b))))

\* position, velocity, heading and angular velocity
Kinematic(b) == <<b.position, b.velocity, b.angle, b.angle_vel>>

Forces(b) == <<b.xy_force, b.angle_force>>

Accumulators == <<integral_x, integral_y, integral_ang>>

\* The statements of one pass of run's loop, in order, from step on.
TickOrder ==
    <<"step", "update_pos_error", "update_vel_error", "update_angle_error",
      "update_ang_vel_error", "correct_angle", "correct_xy", "integrals",
      "append", "while">>

\* The samples appended so far.
Ticks == Len(Recorded("time"))

\* Each part of the state is written by its own statement of the tick only.
EachInItsPlace ==
    /\ (Kinematic(body') # Kinematic(body)) => (pc = "step")
    /\ (sim'.step_count # sim.step_count) => (pc = "step")
    /\ (Forces(body') # Forces(body))
           => (pc \in {"correct_angle", "correct_xy"})
    /\ (Accumulators' # Accumulators) => (pc = "integrals")
    /\ (Ticks' # Ticks) => (pc = "append")

InTick == pc \in {TickOrder[k] : k \in 1..Len(TickOrder)}

RunPcs == {TickOrder[k] : k \in 1..Len(TickOrder)} \cup {"run", "net_accel"}

\* run has a next statement to execute: every statement but the loop test
\* at the cap of MaxTicks ticks.
CanContinue ==
    /\ pc \in RunPcs
    /\ (pc = "while" /\ Airborne(body)) => (sim.step_count < MaxTicks)

\* Control passes to the next statement.
Continue ==
    /\ CanContinue
    /\ pc' \in RunPcs \cup {"returned", "ZeroDivisionError"}
    /\ pc' # pc

\* run as the interpreter executes it: single-threaded and without waits, so
\* a statement that can be executed is executed.
FairSpec == Init /\ [][Next]_vars /\ WF_pc(Continue)

\* A body without drag whose mass and radius are not zero.
NoDrag == args.drag = <<0, 0, 0>> /\ args.mass # 0 /\ args.radius # 0

\* The body with the controller's forces and the heading taken away.
Unforced(b) == [b EXCEPT !.xy_force = <<0, 0>>, !.angle_force = 0, !.angle = 0]

StepFields == {"velocity", "position", "angle_vel", "angle"}

\* Body b1 is body b after one step of dt under the accelerations a, every
\* sum, product and remainder rounded to a float.
StepLaw(b, b1, a, dt) ==
    /\ \A k \in 1..3 :
          /\ b1.velocity[k] = FAdd(b.velocity[k], FMul(a[k], dt))
          /\ b1.position[k] = FAdd(b.position[k], FMul(b1.velocity[k], dt))
    /\ b1.angle_vel = FAdd(b.angle_vel, FMul(a[4], dt))
    /\ b1.angle = Fl(FAdd(b.angle, FMul(b1.angle_vel, dt)) % Full)
    /\ DOMAIN b1 = DOMAIN b
    /\ \A f \in (DOMAIN b) \ StepFields : b1[f] = b[f]

\* C15: Body.step(net_accel, dt) sets velocity[i]' = velocity[i] +
\* net_accel[i]*dt and position[i]' = position[i] + velocity[i]'*dt on each
\* linear axis, angular_velocity' = angular_velocity + alpha*dt and
\* heading' = (heading + angular_velocity'*dt) mod 360, and changes no other
\* field of the body.
C15_StepLaw ==
    /\ [][Step => StepLaw(body, body', body_accel, step_default)]_vars
    /\ [][CallStep =>
            \E accel \in Accels, dt \in TimeSteps :
                StepLaw(body, body', accel, dt)]_vars

\* C15's case: a client's step has changed velocity and position on every
\* axis and wrapped a heading of 725 degrees, with forces preset.
C15_Witness ==
    /\ pc = "client"
    /\ calls = 1
    /\ args.angle = Dec(725, 1)
    /\ body.angle < Half
    /\ \A k \in 1..3 : /\ body.velocity[k] # args.velocity[k]
                       /\ body.position[k] # args.position[k]
    /\ body.angle_vel # args.angle_vel

\* C16: each of the seven reports of Body (pos_report, vel_report,
\* ang_report, ang_vel_report, pos_error_report, vel_error_report,
\* ang_error_report) returns its string, with two decimals to a field,
\* for every body state of a run, and a client's call of one never raises.
C16_ReportsReturn ==
    /\ pc \in RunPcs \cup {"returned"} =>
          \A name \in ReportNames : "returns" \in DOMAIN CallOf(name, body)
    /\ pc \notin {"AttributeError", "TypeError", "IndexError"}

====
